---------------------------- MODULE Spec2Model ----------------------------
(***************************************************************************)
(* Model of the diff engine of src/tools/formatter.rs: create_diff builds  *)
(* the edit script of two texts (the line alignment itself is the crate    *)
(* `similar`), stamps every record with a line number, counts additions    *)
(* and removals, and hands the script to filter_context_lines, which keeps *)
(* the changes and `context` records around every run of changes.          *)
(*                                                                         *)
(* ToolOutput::format renders a report; FileOps::call (src/tools/          *)
(* file_ops.rs) and the main loop (src/main.rs, src/ui.rs) are its users.  *)
(*                                                                         *)
(* A text is the sequence of its lines as TextDiff::from_lines splits it;  *)
(* a line is a string, terminator included.                                *)
(* Indices into Vec values are 0-based as in the source: At(v, i) is v[i]. *)
(***************************************************************************)
EXTENDS Integers, Sequences, FiniteSets, TLC

\* Bounds of the model.
MaxOld == 5
MaxNew == 4
MaxContext == 2

\* The line bodies the inputs are drawn from; every line ends with "\n".
Bodies == {"a", "b"}
RawLines == {c \o "\n" : c \in Bodies}
Texts(n) == UNION {[1..k -> RawLines] : k \in 0..n}

VARIABLES
    file_path,      \* create_diff's file_path
    old_content,    \* create_diff's old_content, split into lines
    new_content,    \* create_diff's new_content, split into lines
    context_lines,  \* create_diff's context_lines
    pc,             \* position in create_diff / filter_context_lines
    changes,        \* what diff.iter_all_changes() yields
    k,              \* number of changes the for loop has consumed
    additions,
    removals,
    lines,          \* the unwindowed script
    current_line,
    i,              \* filter_context_lines: scan index
    result,         \* filter_context_lines: result
    skipped,        \* history: the leading-context candidates not pushed
    diff,           \* the FileDiff returned (counts and windowed lines)
    tool_output,    \* ToolOutput::format: self
    output,         \* ToolOutput::format: the String returned
    fs,             \* FileOps::call: the filesystem, path -> entry
    call,           \* FileOps::call: args, position and Result
    app,            \* main: the App (messages, input, should_quit, ...)
    ui              \* main: loop position, pending key events, last frame

diff_vars == <<file_path, old_content, new_content, context_lines, pc, changes, k,
               additions, removals, lines, current_line, i, result, skipped,
               diff>>
format_vars == <<tool_output, output>>
file_ops_vars == <<fs, call>>
main_vars == <<app, ui>>

vars == <<diff_vars, format_vars, file_ops_vars, main_vars>>

\* Option::None, and the value of a variable its subsystem has not set.
None == "None"

At(v, idx) == v[idx + 1]
Min(x, y) == IF x < y THEN x ELSE y
Last(v) == v[Len(v)]

-----------------------------------------------------------------------------
(* The crate `similar`: TextDiff::from_lines(old, new).iter_all_changes().  *)
(* Its Myers implementation first emits the common prefix and sets the      *)
(* common suffix aside as Equal changes, and aligns what lies between by a  *)
(* shortest edit script; its ops are Equal / Delete / Insert / Replace, so  *)
(* in every run of changes the Delete changes precede the Insert changes (a *)
(* Replace iterates its old lines first).  Which of the shortest scripts of *)
(* the middle part it yields is left open.                                  *)

Change(tag, value) == [tag |-> tag, value |-> value]

RECURSIVE Alignments(_, _, _, _, _)
Alignments(old, new, a, b, prev) ==
    IF a > Len(old) /\ b > Len(new) THEN {<<>>}
    ELSE
        (IF a <= Len(old) /\ b <= Len(new) /\ old[a] = new[b]
         THEN {<<Change("Equal", old[a])>> \o s :
                  s \in Alignments(old, new, a + 1, b + 1, "Equal")}
         ELSE {})
        \cup
        (IF a <= Len(old) /\ prev # "Insert"
         THEN {<<Change("Delete", old[a])>> \o s :
                  s \in Alignments(old, new, a + 1, b, "Delete")}
         ELSE {})
        \cup
        (IF b <= Len(new)
         THEN {<<Change("Insert", new[b])>> \o s :
                  s \in Alignments(old, new, a, b + 1, "Insert")}
         ELSE {})

ShortestScripts(old, new) ==
    LET all == Alignments(old, new, 1, 1, "Equal")
        shortest == CHOOSE n \in {Len(s) : s \in all} :
                        \A s \in all : n <= Len(s)
    IN  {s \in all : Len(s) = shortest}

RECURSIVE common_prefix_len(_, _)
common_prefix_len(old, new) ==
    IF old # <<>> /\ new # <<>> /\ Head(old) = Head(new)
    THEN 1 + common_prefix_len(Tail(old), Tail(new))
    ELSE 0

RECURSIVE common_suffix_len(_, _)
common_suffix_len(old, new) ==
    IF old # <<>> /\ new # <<>> /\ old[Len(old)] = new[Len(new)]
    THEN 1 + common_suffix_len(SubSeq(old, 1, Len(old) - 1),
                               SubSeq(new, 1, Len(new) - 1))
    ELSE 0

iter_all_changes(old, new) ==
    LET pre == common_prefix_len(old, new)
        old1 == SubSeq(old, pre + 1, Len(old))
        new1 == SubSeq(new, pre + 1, Len(new))
        suf == common_suffix_len(old1, new1)
        old2 == SubSeq(old1, 1, Len(old1) - suf)
        new2 == SubSeq(new1, 1, Len(new1) - suf)
        equal(ls) == [n \in 1..Len(ls) |-> Change("Equal", ls[n])]
    IN  {equal(SubSeq(old, 1, pre)) \o s
             \o equal(SubSeq(old1, Len(old1) - suf + 1, Len(old1))) :
         s \in ShortestScripts(old2, new2)}

-----------------------------------------------------------------------------
(* create_diff: the body of the for loop.                                   *)

\* Mutant of ChangeTypeOf: the Delete and Insert arms exchanged.
ChangeTypeOf_Swapped(tag) ==
    CASE tag = "Delete" -> "Addition"
      [] tag = "Insert" -> "Removal"
      [] tag = "Equal"  -> "Context"

ChangeTypeOf(tag) ==
    CASE tag = "Delete" -> "Removal"
      [] tag = "Insert" -> "Addition"
      [] tag = "Equal"  -> "Context"

\* Mutant of AdditionsAfter: every change counts as an addition.
AdditionsAfter_AnyChange(n, tag) == IF tag # "Equal" THEN n + 1 ELSE n

AdditionsAfter(n, tag) == IF tag = "Insert" THEN n + 1 ELSE n

\* Mutant of RemovalsAfter: everything but an Insert counts as a removal.
RemovalsAfter_NotInsert(n, tag) == IF tag # "Insert" THEN n + 1 ELSE n

RemovalsAfter(n, tag) == IF tag = "Delete" THEN n + 1 ELSE n

\* change.value().trim_end_matches('\n'): every trailing "\n" is removed.
RECURSIVE trim_end_matches(_, _)
trim_end_matches(value, c) ==
    IF Len(value) > 0 /\ SubSeq(value, Len(value), Len(value)) = c
    THEN trim_end_matches(SubSeq(value, 1, Len(value) - 1), c)
    ELSE value

FileDiff(path, a, r, ls) ==
    [file_path |-> path, additions |-> a, removals |-> r, lines |-> ls]

DiffLine(n, t, c) == [line_number |-> n, change_type |-> t, content |-> c]

\* Mutants of LineAfter: the counter advances on every record; the counter
\* advances on Equal records only.
LineAfter_Always(cur, tag) == cur + 1

LineAfter_OnlyEqual(cur, tag) == IF tag = "Equal" THEN cur + 1 ELSE cur

LineAfter(cur, tag) == IF tag # "Delete" THEN cur + 1 ELSE cur

\* Mutant of InitialLine: numbering from 0.
InitialLine_Zero == 1 - 1

InitialLine == 1

-----------------------------------------------------------------------------
(* filter_context_lines: the pieces of one iteration of the while loop.     *)

\* Mutant of IsChange: only a Removal is not a change.
IsChange_NotRemoval(line) == line.change_type # "Removal"

IsChange(line) == line.change_type # "Context"

\* Mutant of WindowStart: the leading window starts at the first record.
WindowStart_Zero(idx, context) == 0

\* Mutant of WindowStart: the leading window is one record short.
WindowStart_OneShort(idx, context) ==
    IF idx >= context THEN Min(idx, idx - context + 1) ELSE 0

\* i.saturating_sub(context)
WindowStart(idx, context) == IF idx >= context THEN idx - context ELSE 0

\* Mutant of KeepsCandidate: only a candidate numbered above the record
\* pushed last is kept.
KeepsCandidate_OnlyNewer(res, cand) ==
    res = <<>> \/ Last(res).line_number < cand.line_number

\* result.is_empty() || result.last().unwrap().line_number != lines[j].line_number
\* Mutant of KeepsCandidate: every candidate is pushed.
KeepsCandidate_Always(res, cand) == TRUE

KeepsCandidate(res, cand) ==
    res = <<>> \/ Last(res).line_number # cand.line_number

\* for j in start..i: push lines[j] unless it carries the line number of
\* the record pushed last.
RECURSIVE PushLeading(_, _, _, _)
PushLeading(res, ls, j, stop) ==
    IF j >= stop THEN res
    ELSE PushLeading(
             IF KeepsCandidate(res, At(ls, j))
             THEN Append(res, At(ls, j))
             ELSE res,
             ls, j + 1, stop)

\* History of the same loop: the candidates it does not push, each with the
\* start of its window, the change the window leads to and the line number
\* of the record pushed last when the candidate is met.
RECURSIVE SkippedLeading(_, _, _, _, _)
SkippedLeading(res, ls, start, j, stop) ==
    IF j >= stop THEN {}
    ELSE IF KeepsCandidate(res, At(ls, j))
         THEN SkippedLeading(Append(res, At(ls, j)), ls, start, j + 1, stop)
         ELSE {[start |-> start, change |-> stop, cand |-> j,
                last |-> Last(res).line_number]}
                  \cup SkippedLeading(res, ls, start, j + 1, stop)

\* let mut end = i + 1; while end < len && lines[end] is a change
RECURSIVE RunEnd(_, _)
RunEnd(ls, end) ==
    IF end < Len(ls) /\ IsChange(At(ls, end)) THEN RunEnd(ls, end + 1) ELSE end

\* Mutant of ContextEnd: one record too many after the run.
ContextEnd_OneMore(end, context, len) == Min(end + context + 1, len)

\* (end + context).min(lines.len())
ContextEnd(end, context, len) == Min(end + context, len)

\* usize::MAX, scaled down: the sum end + context overflows above it.
UsizeMax == 31

\* lines[from..to], 0-based and half-open
Slice(ls, from, to) == SubSeq(ls, from + 1, to)

-----------------------------------------------------------------------------
(* ToolOutput::format.                                                      *)

\* Option<FileDiff>: no element for None, one element for Some.
NoDiff == <<>>
Some(d) == <<d>>

ToolOutput(name, summary, details, d) ==
    [tool_name |-> name, summary |-> summary, details |-> details, diff |-> d]

\* The decimal digits of a usize, as `{}` prints it.
RECURSIVE Decimal(_)
Decimal(n) ==
    IF n < 10 THEN SubSeq("0123456789", n + 1, n + 1)
    ELSE Decimal(n \div 10) \o SubSeq("0123456789", (n % 10) + 1, (n % 10) + 1)

RECURSIVE Spaces(_)
Spaces(n) == IF n <= 0 THEN "" ELSE " " \o Spaces(n - 1)

\* Mutant of PadLeft: a wider string is cut to its last `width` characters.
PadLeft_Cut(str, width) ==
    IF Len(str) >= width THEN SubSeq(str, Len(str) - width + 1, Len(str))
    ELSE Spaces(width - Len(str)) \o str

\* `{:4}` of a number: right-aligned, padded with spaces to the width.
PadLeft(str, width) ==
    IF Len(str) >= width THEN str ELSE Spaces(width - Len(str)) \o str

\* Mutant of Plural: the suffix only above 1.
Plural_AboveOne(n) == IF n > 1 THEN "s" ELSE ""

\* if n == 1 { "" } else { "s" }
Plural(n) == IF n = 1 THEN "" ELSE "s"

Prefix(change_type) ==
    CASE change_type = "Context"  -> "     "
      [] change_type = "Addition" -> "    +"
      [] change_type = "Removal"  -> "    -"

\* format!("    {:4}{} {}\n", line.line_number, prefix, content)
FormatLine(line) ==
    "    " \o PadLeft(Decimal(line.line_number), 4) \o Prefix(line.change_type)
        \o " " \o line.content \o "\n"

RECURSIVE FormatLines(_)
FormatLines(ls) ==
    IF ls = <<>> THEN "" ELSE FormatLine(Head(ls)) \o FormatLines(Tail(ls))

FormatHeader(t) == "⏺ " \o t.tool_name \o "(" \o t.summary \o ")\n"

FormatSummary(d) ==
    "  ⎿  Updated " \o d.file_path \o " with "
        \o Decimal(d.additions) \o " addition" \o Plural(d.additions)
        \o " and "
        \o Decimal(d.removals) \o " removal" \o Plural(d.removals) \o "\n"

FormatDetails(details) == "  ⎿  " \o details \o "\n"

\* Mutant of format: details are looked at before the diff.
format_DetailsFirst(t) ==
    FormatHeader(t)
        \o (IF t.details # None THEN FormatDetails(t.details)
            ELSE IF t.diff # NoDiff
                 THEN FormatSummary(t.diff[1]) \o FormatLines(t.diff[1].lines)
                 ELSE "")

format(t) ==
    FormatHeader(t)
        \o (IF t.diff # NoDiff
            THEN FormatSummary(t.diff[1]) \o FormatLines(t.diff[1].lines)
            ELSE IF t.details # None THEN FormatDetails(t.details)
                 ELSE "")

-----------------------------------------------------------------------------
\* The subsystems a specification does not exercise stay as they are here.
FormatIdle == tool_output = None /\ output = None
FileOpsIdle == fs = None /\ call = None
MainIdle == app = None /\ ui = None
DiffIdle ==
    /\ file_path = None
    /\ old_content = <<>>
    /\ new_content = <<>>
    /\ context_lines = 0
    /\ pc = "idle"
    /\ changes = <<>>
    /\ k = 0
    /\ additions = 0
    /\ removals = 0
    /\ lines = <<>>
    /\ current_line = InitialLine
    /\ i = 0
    /\ result = <<>>
    /\ skipped = {}
    /\ diff = None

\* create_diff is entered with these arguments.
CreateDiffEntry(path, old, new, context) ==
    /\ file_path = path
    /\ old_content = old
    /\ new_content = new
    /\ context_lines = context
    /\ pc = "start"
    /\ changes = <<>>
    /\ k = 0
    /\ additions = 0
    /\ removals = 0
    /\ lines = <<>>
    /\ current_line = InitialLine
    /\ i = 0
    /\ result = <<>>
    /\ skipped = {}
    /\ diff = None

Init ==
    /\ \E old \in Texts(MaxOld), new \in Texts(MaxNew), context \in 0..MaxContext :
          CreateDiffEntry("x.txt", old, new, context)
    /\ FormatIdle
    /\ FileOpsIdle
    /\ MainIdle

\* let diff = TextDiff::from_lines(old_content, new_content);
FromLines ==
    /\ pc = "start"
    /\ changes' \in iter_all_changes(old_content, new_content)
    /\ pc' = "changes"
    /\ UNCHANGED <<file_path, old_content,
                   new_content, context_lines, k, additions,
                   removals, lines, current_line, i, result, skipped, diff>>
    /\ UNCHANGED <<format_vars, file_ops_vars, main_vars>>

\* One iteration of `for change in diff.iter_all_changes()`.
PushChange ==
    /\ pc = "changes"
    /\ k < Len(changes)
    /\ LET change == At(changes, k)
       IN  /\ additions' = AdditionsAfter(additions, change.tag)
           /\ removals' = RemovalsAfter(removals, change.tag)
           /\ lines' = Append(lines,
                              DiffLine(current_line, ChangeTypeOf(change.tag),
                                       trim_end_matches(change.value, "\n")))
           /\ current_line' = LineAfter(current_line, change.tag)
    /\ k' = k + 1
    /\ UNCHANGED <<file_path, old_content,
                   new_content, context_lines, pc, changes, i,
                   result, skipped, diff>>
    /\ UNCHANGED <<format_vars, file_ops_vars, main_vars>>

\* The loop is over: filter_context_lines(lines, context_lines) is entered.
\* An empty script is returned as it is.
EnterFilter ==
    /\ pc = "changes"
    /\ k = Len(changes)
    /\ IF lines = <<>>
       THEN /\ pc' = "done"
            /\ diff' = FileDiff(file_path, additions, removals,
                                 lines)
       ELSE /\ pc' = "scan"
            /\ UNCHANGED diff
    /\ i' = 0
    /\ result' = <<>>
    /\ UNCHANGED <<file_path, old_content,
                   new_content, context_lines, changes, k,
                   additions, removals, lines, current_line, skipped>>
    /\ UNCHANGED <<format_vars, file_ops_vars, main_vars>>

\* while i < lines.len(), lines[i] a change: the window of its run.
ScanChange ==
    /\ pc = "scan"
    /\ i < Len(lines)
    /\ IsChange(At(lines, i))
    /\ LET start == WindowStart(i, context_lines)
           end == RunEnd(lines, i + 1)
           context_end == ContextEnd(end, context_lines, Len(lines))
       IN  /\ end + context_lines <= UsizeMax
           /\ result' = PushLeading(result, lines, start, i)
                            \o <<At(lines, i)>>
                            \o Slice(lines, i + 1, end)
                            \o Slice(lines, end, context_end)
           /\ skipped' = skipped \cup SkippedLeading(result, lines, start, start, i)
           /\ i' = end
    /\ UNCHANGED <<file_path, old_content,
                   new_content, context_lines, pc, changes, k,
                   additions, removals, lines, current_line, diff>>
    /\ UNCHANGED <<format_vars, file_ops_vars, main_vars>>

\* while i < lines.len(), lines[i] a Context record: i += 1.
ScanContext ==
    /\ pc = "scan"
    /\ i < Len(lines)
    /\ ~IsChange(At(lines, i))
    /\ i' = i + 1
    /\ UNCHANGED <<file_path, old_content,
                   new_content, context_lines, pc, changes, k,
                   additions, removals, lines, current_line, result, skipped,
                   diff>>
    /\ UNCHANGED <<format_vars, file_ops_vars, main_vars>>

\* The scan is over: filter_context_lines returns result and create_diff
\* returns the FileDiff.
Return ==
    /\ pc = "scan"
    /\ i >= Len(lines)
    /\ diff' = FileDiff(file_path, additions, removals,
                         result)
    /\ pc' = "done"
    /\ UNCHANGED <<file_path, old_content,
                   new_content, context_lines, changes, k,
                   additions, removals, lines, current_line, i, result,
                   skipped>>
    /\ UNCHANGED <<format_vars, file_ops_vars, main_vars>>

Next ==
    \/ FromLines
    \/ PushChange
    \/ EnterFilter
    \/ ScanChange
    \/ ScanContext
    \/ Return

Spec == Init /\ [][Next]_vars

-----------------------------------------------------------------------------
(* create_diff on texts whose lines end with LF, with CRLF or, the last     *)
(* one, with nothing: from_lines keeps each line's terminator in its value. *)

MaxTermLines == 2

Terminators == {"\n", "\r\n"}
TerminatedLines == {c \o t : c \in Bodies, t \in Terminators}
TerminatedTexts(n) ==
    UNION {[1..m -> TerminatedLines] : m \in 0..n}
\* All lines but the last are terminated; the last may lack its terminator.
TextsOfLines(n) ==
    TerminatedTexts(n)
        \cup {Append(t, c) : t \in TerminatedTexts(n - 1), c \in Bodies}

\* The callers' context_lines.
CallerContext == 2

InitTerminators ==
    /\ \E old \in TextsOfLines(MaxTermLines), new \in TextsOfLines(MaxTermLines) :
          CreateDiffEntry("x.txt", old, new, CallerContext)
    /\ FormatIdle
    /\ FileOpsIdle
    /\ MainIdle

SpecTerminators == InitTerminators /\ [][Next]_vars

-----------------------------------------------------------------------------
(* filter_context_lines with any context a usize holds: end + context can   *)
(* exceed usize::MAX.  A build with overflow checks panics there; a build   *)
(* without them wraps the sum.                                              *)

MaxWideLines == 2

InitWide ==
    /\ \E old \in Texts(MaxWideLines), new \in Texts(MaxWideLines),
          context \in 0..UsizeMax :
          CreateDiffEntry("x.txt", old, new, context)
    /\ FormatIdle
    /\ FileOpsIdle
    /\ MainIdle

\* while i < lines.len(), lines[i] a change, and end + context overflows.
ScanChangeOverflow ==
    /\ pc = "scan"
    /\ i < Len(lines)
    /\ IsChange(At(lines, i))
    /\ LET start == WindowStart(i, context_lines)
           end == RunEnd(lines, i + 1)
           wrapped == (end + context_lines) % (UsizeMax + 1)
           context_end == Min(wrapped, Len(lines))
       IN  /\ end + context_lines > UsizeMax
           /\ \/ /\ pc' = "panicked"
                 /\ UNCHANGED <<result, skipped, i>>
              \/ /\ result' = PushLeading(result, lines, start, i)
                                  \o <<At(lines, i)>>
                                  \o Slice(lines, i + 1, end)
                                  \o Slice(lines, end, context_end)
                 /\ skipped' = skipped
                                   \cup SkippedLeading(result, lines, start, start, i)
                 /\ i' = end
                 /\ UNCHANGED pc
    /\ UNCHANGED <<file_path, old_content,
                   new_content, context_lines, changes, k,
                   additions, removals, lines, current_line, diff>>
    /\ UNCHANGED <<format_vars, file_ops_vars, main_vars>>

NextWide ==
    \/ Next
    \/ ScanChangeOverflow

SpecWide == InitWide /\ [][NextWide]_vars

-----------------------------------------------------------------------------
(* ToolOutput::format on any ToolOutput: details and diff each present or   *)
(* not, any counts, any lines (format does not relate counts and lines).    *)

MaxCount == 2
MaxFormatLines == 2

LineNumbers == {7, 42, 12345}
Contents == {"", "a b"}
DiffLines ==
    {DiffLine(n, t, c) : n \in LineNumbers,
                         t \in {"Context", "Addition", "Removal"},
                         c \in Contents}
FileDiffs ==
    {FileDiff("x.txt", a, r, ls) :
        a \in 0..MaxCount, r \in 0..MaxCount,
        ls \in UNION {[1..m -> DiffLines] : m \in 0..MaxFormatLines}}
ToolOutputs ==
    {ToolOutput("Edit", "x.txt", details, d) :
        details \in {None, "done"},
        d \in {NoDiff} \cup {Some(fd) : fd \in FileDiffs}}

InitFormat ==
    /\ tool_output \in ToolOutputs
    /\ output = None
    /\ DiffIdle
    /\ FileOpsIdle
    /\ MainIdle

\* output.format()
Format ==
    /\ output = None
    /\ output' = format(tool_output)
    /\ UNCHANGED <<tool_output, diff_vars, file_ops_vars, main_vars>>

NextFormat == Format

SpecFormat == InitFormat /\ [][NextFormat]_vars

-----------------------------------------------------------------------------
(* FileOps::call.  The file system is a map from paths to nodes; a file's   *)
(* text is its list of terminated lines.  Every file-system call may fail   *)
(* for a reason of the operating system's, and fails where it must.         *)

MaxFileLines == 2

Paths == {"a.txt", "b.txt"}
Operations == {"delete", "move", "copy", "rename"}

Absent == [kind |-> "absent", content |-> <<>>]
Directory == [kind |-> "directory", content |-> <<>>]
Binary == [kind |-> "binary", content |-> <<>>]
TextFile(text) == [kind |-> "file", content |-> text]
Nodes == {Absent, Directory, Binary} \cup {TextFile(t) : t \in Texts(MaxFileLines)}

\* The Display of a std::io::Error, whatever the system says.
OsError == "os error"

Ok(text) == [ok |-> TRUE, text |-> text]
Err(text) == [ok |-> FALSE, text |-> text]
Pending == [ok |-> FALSE, text |-> ""]

FileOpsArgs(operation, source, destination) ==
    [operation |-> operation, source |-> source, destination |-> destination]

\* Mutant of ReadOrDefault: the destination is never read.
ReadOrDefault_Never(node) == <<>>

\* fs::read_to_string(path).unwrap_or_default()
ReadOrDefault(node) == IF node.kind = "file" THEN node.content ELSE <<>>

\* Mutant of is_dir: nothing is taken for a directory.
is_dir_Never(node) == FALSE

\* metadata.is_dir()
is_dir(node) == node.kind = "directory"

\* Mutant of ItemType: every item is called a file.
ItemType_AlwaysFile(node) == "file"

\* if metadata.is_dir() { "directory" } else { "file" }
ItemType(node) == IF node.kind = "directory" THEN "directory" ELSE "file"

DeleteDetails(item_type, source) == "Deleted " \o item_type \o " " \o source
MoveDetails(source, destination) == "Moved " \o source \o " to " \o destination
CopyDetails(source, destination) == "Copied " \o source \o " to " \o destination

\* The call has returned `res`, leaving everything but the file system as it was.
Returns(res) ==
    /\ call' = [call EXCEPT !.pc = "returned", !.result = res]
    /\ UNCHANGED <<diff_vars, format_vars, main_vars>>

InitFileOps ==
    /\ fs \in [Paths -> Nodes]
    /\ \E operation \in Operations, source \in Paths,
          destination \in {None} \cup Paths :
          call = [args |-> FileOpsArgs(operation, source, destination),
                  pc |-> "called", result |-> Pending, before |-> fs]
    /\ DiffIdle
    /\ FormatIdle
    /\ MainIdle

\* "delete" => { ... }
Delete ==
    /\ call.pc = "called"
    /\ call.args.operation = "delete"
    /\ LET source == call.args.source
           node == fs[source]
       IN  \/ /\ Returns(Err("Failed to access " \o source \o ": " \o OsError))
              /\ UNCHANGED fs
           \/ /\ node.kind = "directory"
              /\ Returns(Err("Failed to delete directory: " \o OsError))
              /\ UNCHANGED fs
           \/ /\ node.kind \in {"file", "binary"}
              /\ Returns(Err("Failed to delete file: " \o OsError))
              /\ UNCHANGED fs
           \/ /\ node.kind # "absent"
              /\ fs' = [fs EXCEPT ![source] = Absent]
              /\ Returns(Ok(format(ToolOutput("Delete", source,
                                DeleteDetails(ItemType(node), source), NoDiff))))

\* fs::rename: a file does not replace a directory, nor a directory a file.
CanRename(from, to) ==
    /\ from.kind # "absent"
    /\ from.kind = "directory" => to.kind \in {"absent", "directory"}
    /\ from.kind # "directory" => to.kind # "directory"

\* "move" => { ... }
Move ==
    /\ call.pc = "called"
    /\ call.args.operation = "move"
    /\ LET source == call.args.source
           destination == call.args.destination
       IN  IF destination = None
           THEN /\ Returns(Err("Destination required for move operation"))
                /\ UNCHANGED fs
           ELSE \/ /\ Returns(Err("Failed to move file: " \o OsError))
                   /\ UNCHANGED fs
                \/ /\ CanRename(fs[source], fs[destination])
                   /\ fs' = IF source = destination THEN fs
                            ELSE [fs EXCEPT ![destination] = fs[source],
                                            ![source] = Absent]
                   /\ Returns(Ok(format(ToolOutput("Move", source,
                                     MoveDetails(source, destination), NoDiff))))

\* The file system after fs::copy succeeded.  Copying a file onto itself
\* opens it for reading and, truncating, for writing: it is left as it was
\* or empty, by the platform.
AfterCopy(source, destination) ==
    IF source = destination
    THEN {fs, [fs EXCEPT ![destination] = TextFile(<<>>)]}
    ELSE {[fs EXCEPT ![destination] = fs[source]]}

\* "copy" => { ... } up to the report or the call of create_diff
Copy ==
    /\ call.pc = "called"
    /\ call.args.operation = "copy"
    /\ LET source == call.args.source
           destination == call.args.destination
       IN  IF destination = None
           THEN /\ Returns(Err("Destination required for copy operation"))
                /\ UNCHANGED fs
           ELSE LET old == ReadOrDefault(fs[destination])
                    new == fs[source].content
                IN  \/ /\ Returns(Err("Failed to access source: " \o OsError))
                       /\ UNCHANGED fs
                    \/ /\ is_dir(fs[source])
                       /\ Returns(Err("Copying directories not yet supported"))
                       /\ UNCHANGED fs
                    \/ /\ fs[source].kind # "absent"
                       /\ ~is_dir(fs[source])
                       /\ Returns(Err("Failed to read source: " \o OsError))
                       /\ UNCHANGED fs
                    \/ /\ fs[source].kind = "file"
                       /\ Returns(Err("Failed to copy file: " \o OsError))
                       /\ UNCHANGED fs
                    \/ /\ fs[source].kind = "file"
                       /\ fs[destination].kind # "directory"
                       /\ fs' \in AfterCopy(source, destination)
                       /\ IF old = <<>>
                          THEN Returns(Ok(format(ToolOutput("Copy", destination,
                                       CopyDetails(source, destination), NoDiff))))
                          ELSE /\ call' = [call EXCEPT !.pc = "create_diff"]
                               /\ file_path' = destination
                               /\ old_content' = old
                               /\ new_content' = new
                               /\ context_lines' = CallerContext
                               /\ pc' = "start"
                               /\ UNCHANGED <<changes, k, additions, removals,
                                              lines, current_line, i, result,
                                              skipped, diff, format_vars,
                                              main_vars>>

\* ToolOutput::new("Copy", &destination).with_diff(diff), formatted
CopyReport ==
    /\ call.pc = "create_diff"
    /\ pc = "done"
    /\ call' = [call EXCEPT
                   !.pc = "returned",
                   !.result = Ok(format(ToolOutput("Copy", call.args.destination,
                                                   None, Some(diff))))]
    /\ UNCHANGED <<fs, diff_vars, format_vars, main_vars>>

\* _ => Err(...)
UnknownOperation ==
    /\ call.pc = "called"
    /\ call.args.operation \notin {"delete", "move", "copy"}
    /\ Returns(Err("Unknown operation: " \o call.args.operation
                       \o ". Use 'delete', 'move', or 'copy'"))
    /\ UNCHANGED fs

NextFileOps ==
    \/ Delete
    \/ Move
    \/ Copy
    \/ UnknownOperation
    \/ FromLines
    \/ PushChange
    \/ EnterFilter
    \/ ScanChange
    \/ ScanContext
    \/ Return
    \/ CopyReport

SpecFileOps == InitFileOps /\ [][NextFileOps]_vars

-----------------------------------------------------------------------------
(* The main event loop.  Keys pressed at the terminal queue up until        *)
(* handle_events reads one; the loop suspends only in process_command.      *)

MaxKeys == 5

KeyCodes == {"Char", "Backspace", "Enter", "Esc", "CtrlC"}
Responses == {"response"}

Message(role, content) == [role |-> role, content |-> content]

\* Mutant of Submit: the empty input is submitted too.
Submit_AlsoEmpty(a) ==
    [a EXCEPT !.messages = Append(@, Message("User", a.input)), !.input = ""]

\* App::submit_input and the push of the User message, on Enter
Submit(a) ==
    IF a.input = "" THEN a
    ELSE [a EXCEPT !.messages = Append(@, Message("User", a.input)),
                   !.input = ""]

\* The match on key.code of UI::handle_events
HandleKey(a, code) ==
    CASE code = "CtrlC"     -> [a EXCEPT !.should_quit = TRUE]
      [] code = "Char"      -> [a EXCEPT !.input = @ \o "a"]
      [] code = "Backspace" ->
             [a EXCEPT !.input = IF @ = "" THEN "" ELSE SubSeq(@, 1, Len(@) - 1)]
      [] code = "Enter"     -> Submit(a)
      [] OTHER              -> a

\* UI::draw: the frame shows the working indicator iff is_processing
Frame(a) == [working |-> a.is_processing]

InitMain ==
    /\ app = [messages |-> <<Message("System", "Welcome")>>, input |-> "",
              should_quit |-> FALSE, is_processing |-> FALSE]
    /\ ui = [pc |-> "poll", events |-> <<>>, pressed |-> 0,
             frame |-> [working |-> FALSE]]
    /\ DiffIdle
    /\ FormatIdle
    /\ FileOpsIdle

\* The user presses a key; it waits in the terminal's queue.  Each event
\* remembers whether the working indicator was on the screen.
KeyPress ==
    /\ ui.pc # "exited"
    /\ ui.pressed < MaxKeys
    /\ \E code \in KeyCodes :
          ui' = [ui EXCEPT
                    !.events = Append(@, [code |-> code,
                                          working |-> ui.frame.working]),
                    !.pressed = @ + 1]
    /\ UNCHANGED <<app, diff_vars, format_vars, file_ops_vars>>

\* One turn of the loop, from handle_events to the break, to the await of
\* process_command, or to the draw that ends the turn.
Poll ==
    /\ ui.pc = "poll"
    /\ LET handled == IF ui.events = <<>> THEN app
                      ELSE HandleKey(app, Head(ui.events).code)
           rest == IF ui.events = <<>> THEN <<>> ELSE Tail(ui.events)
       IN  IF handled.should_quit
           THEN /\ app' = handled
                /\ ui' = [ui EXCEPT !.pc = "exited", !.events = rest]
           ELSE IF /\ Len(handled.messages) > Len(app.messages)
                   /\ Last(handled.messages).role = "User"
                THEN /\ app' = [handled EXCEPT !.is_processing = TRUE]
                     /\ ui' = [ui EXCEPT !.pc = "processing", !.events = rest,
                                         !.frame = Frame(app')]
                ELSE /\ app' = handled
                     /\ ui' = [ui EXCEPT !.events = rest, !.frame = Frame(app')]
    /\ UNCHANGED <<diff_vars, format_vars, file_ops_vars>>

\* process_command returns: the rest of the turn
ProcessDone ==
    /\ ui.pc = "processing"
    /\ \E response \in Responses :
          app' = [app EXCEPT !.is_processing = FALSE,
                             !.messages = Append(@, Message("Assistant", response))]
    /\ ui' = [ui EXCEPT !.pc = "poll", !.frame = Frame(app')]
    /\ UNCHANGED <<diff_vars, format_vars, file_ops_vars>>

NextMain ==
    \/ KeyPress
    \/ Poll
    \/ ProcessDone

SpecMain == InitMain /\ [][NextMain]_vars

-----------------------------------------------------------------------------
(* Text as the tools hold it (a String) and as the line differ sees it      *)
(* (its lines, each with its terminator, the last possibly without).        *)

RECURSIVE TextOf(_)
TextOf(ls) == IF ls = <<>> THEN "" ELSE Head(ls) \o TextOf(Tail(ls))

\* The index of the first "\n" of text, 0 if it has none.
FirstNewline(text) ==
    LET at == {p \in 1..Len(text) : SubSeq(text, p, p) = "\n"}
    IN  IF at = {} THEN 0 ELSE CHOOSE p \in at : \A q \in at : p <= q

RECURSIVE Tokenize(_)
Tokenize(text) ==
    IF text = "" THEN <<>>
    ELSE LET n == FirstNewline(text)
         IN  IF n = 0 THEN <<text>>
             ELSE <<SubSeq(text, 1, n)>> \o Tokenize(SubSeq(text, n + 1, Len(text)))

\* str::contains
contains(text, pat) ==
    \E p \in 1..Len(text) - Len(pat) + 1 : SubSeq(text, p, p + Len(pat) - 1) = pat

\* str::replacen: the first n matches, left to right, not overlapping; the
\* empty pattern matches before every character and at the end.
RECURSIVE replacen(_, _, _, _)
replacen(text, from, to, n) ==
    IF n = 0 THEN text
    ELSE IF from = ""
         THEN to \o (IF text = "" THEN ""
                     ELSE SubSeq(text, 1, 1)
                              \o replacen(SubSeq(text, 2, Len(text)), from, to, n - 1))
    ELSE IF text = "" THEN ""
    ELSE IF Len(text) >= Len(from) /\ SubSeq(text, 1, Len(from)) = from
         THEN to \o replacen(SubSeq(text, Len(from) + 1, Len(text)), from, to, n - 1)
         ELSE SubSeq(text, 1, 1) \o replacen(SubSeq(text, 2, Len(text)), from, to, n)

\* str::replace: every match
replace(text, from, to) == replacen(text, from, to, Len(text) + 1)

-----------------------------------------------------------------------------
(* Edit::call on a file system whose only node is at "a.txt".               *)

OldStrings == {"a", "b\n", "a\na", "c", ""}
NewStrings == {"", "b", "a\nb"}

EditArgs(path, old_string, new_string, replace_all) ==
    [file_path |-> path, old_string |-> old_string,
     new_string |-> new_string, replace_all |-> replace_all]

\* Mutant of Found: the check for old_string is left out.
Found_Always(text, old_string) == TRUE

\* old_content.contains(&args.old_string)
Found(text, old_string) == contains(text, old_string)

\* let new_content = if replace_all { .. } else { .. }
Replaced(text, args) ==
    IF args.replace_all = <<TRUE>>
    THEN replace(text, args.old_string, args.new_string)
    ELSE replacen(text, args.old_string, args.new_string, 1)

\* The file systems fs::write leaves when it fails: nothing written, or the
\* file created or truncated and not filled.
AfterFailedWrite(path) == {fs, [fs EXCEPT ![path] = TextFile(<<>>)]}

\* The call has returned `res` after the file-system calls `did`.
Finishes(res, did) ==
    /\ call' = [call EXCEPT !.pc = "returned", !.result = res, !.did = did]
    /\ UNCHANGED <<diff_vars, format_vars, main_vars>>

\* create_diff(path, old, new, 2) is entered.
EntersCreateDiff(path, old, new) ==
    /\ file_path' = path
    /\ old_content' = Tokenize(old)
    /\ new_content' = Tokenize(new)
    /\ context_lines' = CallerContext
    /\ pc' = "start"
    /\ changes' = <<>>
    /\ k' = 0
    /\ additions' = 0
    /\ removals' = 0
    /\ lines' = <<>>
    /\ current_line' = InitialLine
    /\ i' = 0
    /\ result' = <<>>
    /\ skipped' = {}
    /\ diff' = None
    /\ UNCHANGED <<format_vars, main_vars>>

\* The call enters create_diff(path, old, new, 2) after `did`.
CallsCreateDiff(path, old, new, did) ==
    /\ call' = [call EXCEPT !.pc = "create_diff", !.did = did]
    /\ EntersCreateDiff(path, old, new)

InitEdit ==
    /\ \E node \in Nodes :
          fs = [p \in Paths |-> IF p = "a.txt" THEN node ELSE Absent]
    /\ \E path \in Paths, old_string \in OldStrings, new_string \in NewStrings,
          replace_all \in {<<>>, <<TRUE>>, <<FALSE>>} :
          call = [args |-> EditArgs(path, old_string, new_string, replace_all),
                  pc |-> "called", result |-> Pending, before |-> fs,
                  did |-> <<>>]
    /\ DiffIdle
    /\ FormatIdle
    /\ MainIdle

\* Edit::call up to its error or to the call of create_diff
EditCall ==
    /\ call.pc = "called"
    /\ LET path == call.args.file_path
           node == fs[path]
           text == TextOf(node.content)
           new == Replaced(text, call.args)
       IN  \/ /\ Finishes(Err("Failed to read " \o path \o ": " \o OsError), <<>>)
              /\ UNCHANGED fs
           \/ /\ node.kind = "file"
              /\ ~Found(text, call.args.old_string)
              /\ Finishes(Err("String not found in file: '"
                                  \o call.args.old_string \o "'"),
                          <<"read_to_string">>)
              /\ UNCHANGED fs
           \/ /\ node.kind = "file"
              /\ Found(text, call.args.old_string)
              /\ fs' \in AfterFailedWrite(path)
              /\ Finishes(Err("Failed to write " \o path \o ": " \o OsError),
                          <<"read_to_string">>)
           \/ /\ node.kind = "file"
              /\ Found(text, call.args.old_string)
              /\ fs' = [fs EXCEPT ![path] = TextFile(Tokenize(new))]
              /\ CallsCreateDiff(path, text, new, <<"read_to_string", "write">>)

\* ToolOutput::new("Edit", &args.file_path).with_diff(diff), formatted
EditReport ==
    /\ call.pc = "create_diff"
    /\ pc = "done"
    /\ call' = [call EXCEPT
                   !.pc = "returned",
                   !.result = Ok(format(ToolOutput("Edit", call.args.file_path,
                                                   None, Some(diff))))]
    /\ UNCHANGED <<fs, diff_vars, format_vars, main_vars>>

NextEdit ==
    \/ EditCall
    \/ FromLines
    \/ PushChange
    \/ EnterFilter
    \/ ScanChange
    \/ ScanContext
    \/ Return
    \/ EditReport

SpecEdit == InitEdit /\ [][NextEdit]_vars

-----------------------------------------------------------------------------
(* WriteFiles::call.  "d/b.txt" lies in the directory "d"; a node exists    *)
(* below "d" only while "d" is a directory.                                 *)

MaxFiles == 2

WritePaths == {"a.txt", "d", "d/b.txt"}
WriteContents == {"", "a\n", "b\na\nb\n"}

FileToWrite(path, content) == [path |-> path, content |-> content]

\* Path::parent, "" for a path of one component
Parent(path) == IF path = "d/b.txt" THEN "d" ELSE ""

WriteFileSystems ==
    {f \in [WritePaths -> {Absent, Directory, Binary, TextFile(<<"a\n">>)}] :
        /\ f["d/b.txt"].kind \in {"absent", "file"}
        /\ f["d/b.txt"].kind # "absent" => f["d"].kind = "directory"}

\* The file system after fs::create_dir_all(parent) succeeded.
AfterCreateDirAll(parent) ==
    IF parent = "" THEN fs ELSE [fs EXCEPT ![parent] = Directory]

\* Mutant of OldContent: a file that is no text is read as some text.
OldContent_Lossy(f, file) ==
    IF f[file.path].kind = "binary" THEN "a\n"
    ELSE TextOf(ReadOrDefault(f[file.path]))

\* Mutant of OldContent: the file is read after it was written.
OldContent_AfterWrite(f, file) == file.content

\* fs::read_to_string(&file.path).await.unwrap_or_default() in f
OldContent(f, file) == TextOf(ReadOrDefault(f[file.path]))

\* Mutant of Written: the write is put off.
Written_Later(f, file) == f

\* The file system f after fs::write(&file.path, &file.content) succeeded.
Written(f, file) == [f EXCEPT ![file.path] = TextFile(Tokenize(file.content))]

RECURSIVE join(_, _)
join(outputs, sep) ==
    IF outputs = <<>> THEN ""
    ELSE IF Len(outputs) = 1 THEN outputs[1]
    ELSE outputs[1] \o sep \o join(Tail(outputs), sep)

InitWriteFiles ==
    /\ fs \in WriteFileSystems
    /\ \E n \in 0..MaxFiles :
          \E files \in [1..n -> {FileToWrite(p, c) : p \in WritePaths,
                                                     c \in WriteContents}] :
              call = [args |-> [files |-> files], pc |-> "called",
                      result |-> Pending, before |-> fs, did |-> <<>>,
                      index |-> 1, outputs |-> <<>>, prior |-> fs]
    /\ DiffIdle
    /\ FormatIdle
    /\ MainIdle

\* One turn of `for file in args.files`, up to its error or to create_diff
WriteFile ==
    /\ call.pc = "called"
    /\ call.index <= Len(call.args.files)
    /\ LET file == call.args.files[call.index]
           parent == Parent(file.path)
           made == AfterCreateDirAll(parent)
           old_text == OldContent(made, file)
       IN  \/ /\ parent # ""
              /\ Finishes(Err("Failed to create directory: " \o OsError), call.did)
              /\ UNCHANGED fs
           \/ /\ parent # "" => fs[parent].kind \in {"absent", "directory"}
              /\ fs' \in {made} \cup
                         (IF made[file.path].kind = "directory" THEN {}
                          ELSE {[made EXCEPT ![file.path] = TextFile(<<>>)]})
              /\ Finishes(Err("Failed to write " \o file.path \o ": " \o OsError),
                          call.did)
           \/ /\ parent # "" => fs[parent].kind \in {"absent", "directory"}
              /\ made[file.path].kind # "directory"
              /\ fs' = Written(made, file)
              /\ call' = [call EXCEPT !.pc = "create_diff",
                                      !.did = Append(@, call.index),
                                      !.prior = fs]
              /\ EntersCreateDiff(file.path, old_text, file.content)

\* outputs.push(output.format()) and the next turn
WriteFilePush ==
    /\ call.pc = "create_diff"
    /\ pc = "done"
    /\ call' = [call EXCEPT
                   !.pc = "called",
                   !.index = @ + 1,
                   !.outputs = Append(@, format(ToolOutput("WriteFile", file_path,
                                                           None, Some(diff))))]
    /\ UNCHANGED <<fs, diff_vars, format_vars, main_vars>>

\* Ok(outputs.join("\n"))
WriteFilesReturn ==
    /\ call.pc = "called"
    /\ call.index > Len(call.args.files)
    /\ call' = [call EXCEPT !.pc = "returned",
                            !.result = Ok(join(call.outputs, "\n"))]
    /\ UNCHANGED <<fs, diff_vars, format_vars, main_vars>>

NextWriteFiles ==
    \/ WriteFile
    \/ FromLines
    \/ PushChange
    \/ EnterFilter
    \/ ScanChange
    \/ ScanContext
    \/ Return
    \/ WriteFilePush
    \/ WriteFilesReturn

SpecWriteFiles == InitWriteFiles /\ [][NextWriteFiles]_vars

-----------------------------------------------------------------------------
(* WebFetch::call.  A body is a String: here a run of `ascii` one-byte      *)
(* characters followed by the characters of `tail`, each 1 to 4 bytes long  *)
(* in UTF-8.                                                                *)

MAX_SIZE == 100000
MaxTail == 2

Chars == {"a", "é", "€", "U+1F600"}

\* char::len_utf8
len_utf8(c) ==
    CASE c = "a" -> 1
      [] c = "é" -> 2
      [] c = "€" -> 3
      [] c = "U+1F600" -> 4

String(ascii, tail) == [ascii |-> ascii, tail |-> tail]

RECURSIVE TailLen(_)
TailLen(tail) == IF tail = <<>> THEN 0 ELSE len_utf8(Head(tail)) + TailLen(Tail(tail))

\* String::len, in bytes
ByteLen(content) == content.ascii + TailLen(content.tail)

\* str::is_char_boundary
is_char_boundary(content, index) ==
    \/ index <= content.ascii
    \/ \E n \in 0..Len(content.tail) :
           content.ascii + TailLen(SubSeq(content.tail, 1, n)) = index

\* &content[..index], for an index on a character boundary
SliceTo(content, index) ==
    IF index <= content.ascii THEN String(index, <<>>)
    ELSE LET n == CHOOSE n \in 0..Len(content.tail) :
                      content.ascii + TailLen(SubSeq(content.tail, 1, n)) = index
         IN  String(content.ascii, SubSeq(content.tail, 1, n))

Bodies100K ==
    {String(ascii, tail) :
        ascii \in (MAX_SIZE - 4)..(MAX_SIZE + 1),
        tail \in UNION {[1..n -> Chars] : n \in 0..MaxTail}}

\* What the server and the network make of the request.
Responses100K ==
    {[outcome |-> o, body |-> String(0, <<>>)] :
        o \in {"send failed", "status 404", "body failed"}}
    \cup {[outcome |-> "success", body |-> b] : b \in Bodies100K}

\* The String a successful call returns: a body and what follows it.
Fetched(body, rest) == [ok |-> TRUE, body |-> body, text |-> rest]
FetchError(text) == [ok |-> FALSE, body |-> String(0, <<>>), text |-> text]

InitWebFetch ==
    /\ fs = None
    /\ \E response \in Responses100K :
          call = [args |-> [url |-> "http://x"], pc |-> "called",
                  response |-> response, result |-> FetchError("")]
    /\ DiffIdle
    /\ FormatIdle
    /\ MainIdle

\* WebFetch::call
WebFetchCall ==
    /\ call.pc = "called"
    /\ LET content == call.response.body
           outcome == call.response.outcome
       IN  call' =
             IF outcome = "send failed"
             THEN [call EXCEPT !.pc = "returned",
                      !.result = FetchError("Failed to fetch " \o call.args.url
                                                \o ": " \o OsError)]
             ELSE IF outcome = "status 404"
             THEN [call EXCEPT !.pc = "returned",
                      !.result = FetchError("HTTP request failed with status: "
                                                \o "404 Not Found")]
             ELSE IF outcome = "body failed"
             THEN [call EXCEPT !.pc = "returned",
                      !.result = FetchError("Failed to read response body: "
                                                \o OsError)]
             ELSE IF ByteLen(content) > MAX_SIZE
             THEN IF is_char_boundary(content, MAX_SIZE)
                  THEN [call EXCEPT !.pc = "returned",
                           !.result = Fetched(SliceTo(content, MAX_SIZE),
                                          "... (truncated, total size: "
                                              \o Decimal(ByteLen(content))
                                              \o " bytes)")]
                  ELSE [call EXCEPT !.pc = "panicked"]
             ELSE [call EXCEPT !.pc = "returned", !.result = Fetched(content, "")]
    /\ UNCHANGED <<fs, diff_vars, format_vars, main_vars>>

NextWebFetch == WebFetchCall

SpecWebFetch == InitWebFetch /\ [][NextWebFetch]_vars

-----------------------------------------------------------------------------
(* Ada::process_command and Ada::try_direct_command.  The log lists, in     *)
(* order, what the call invoked: show_help, the Execute tool with its       *)
(* command, the intent classifier, an agent.                                *)

question_words ==
    {"what", "how", "why", "when", "where", "who", "which", "can", "could",
     "would", "should", "is", "are", "do", "does"}

natural_language_words ==
    {"all", "the", "my", "this", "that", "these", "those", "every", "each",
     "some", "any", "many", "few", "a", "an", "me", "you", "it", "them", "us"}

is_whitespace(c) == c \in {" ", "\t", "\n"}

\* char::to_lowercase, for the letters of the Latin alphabet
LowerChar(c) ==
    LET upper == "ABCDEFGHIJKLMNOPQRSTUVWXYZ"
        at == {n \in 1..26 : SubSeq(upper, n, n) = c}
    IN  IF at = {} THEN c
        ELSE LET n == CHOOSE n \in at : TRUE
             IN  SubSeq("abcdefghijklmnopqrstuvwxyz", n, n)

RECURSIVE to_lowercase(_)
to_lowercase(str) ==
    IF str = "" THEN ""
    ELSE LowerChar(SubSeq(str, 1, 1)) \o to_lowercase(SubSeq(str, 2, Len(str)))

RECURSIVE trim_start(_)
trim_start(str) ==
    IF str # "" /\ is_whitespace(SubSeq(str, 1, 1))
    THEN trim_start(SubSeq(str, 2, Len(str)))
    ELSE str

RECURSIVE trim_end(_)
trim_end(str) ==
    IF str # "" /\ is_whitespace(SubSeq(str, Len(str), Len(str)))
    THEN trim_end(SubSeq(str, 1, Len(str) - 1))
    ELSE str

trim(str) == trim_end(trim_start(str))

\* The length of the first token of a string that starts with none of
\* whitespace.
TokenLen(str) ==
    LET stops == {n \in 1..Len(str) : is_whitespace(SubSeq(str, n, n))}
    IN  IF stops = {} THEN Len(str)
        ELSE (CHOOSE n \in stops : \A m \in stops : n <= m) - 1

RECURSIVE split_whitespace(_)
split_whitespace(str) ==
    LET rest == trim_start(str)
    IN  IF rest = "" THEN <<>>
        ELSE <<SubSeq(rest, 1, TokenLen(rest))>>
                 \o split_whitespace(SubSeq(rest, TokenLen(rest) + 1, Len(rest)))

\* Mutant of IsDirectCommand: the second token is not looked at.
IsDirectCommand_AnySecond(input, available_commands) ==
    LET tokens == split_whitespace(trim(input))
    IN  /\ tokens # <<>>
        /\ to_lowercase(tokens[1]) \notin question_words
        /\ to_lowercase(tokens[1]) \in available_commands

\* try_direct_command reaches Execute.call (it does not return None before)
IsDirectCommand(input, available_commands) ==
    LET tokens == split_whitespace(trim(input))
    IN  /\ tokens # <<>>
        /\ to_lowercase(tokens[1]) \notin question_words
        /\ to_lowercase(tokens[1]) \in available_commands
        /\ Len(tokens) >= 2 =>
               to_lowercase(tokens[2]) \notin natural_language_words

Inputs ==
    {"/help", " /help", "/help me", "ls", "LS -la", "ls all", "ls  The files",
     "ls -a the", "what ls", "What is ls", "git status", "do it", " ls\t-l ",
     "Make all", "hello there", "   "}

Commands == {{}, {"ls", "git", "what"}, {"ls", "do", "Make"}}

Intents == {"code_search", "file_ops", "git", "execution", "web", "general", "other"}

\* The agent an intent is routed to.
AgentOf(intent) ==
    IF intent \in {"code_search", "file_ops", "git", "execution", "web"}
    THEN intent ELSE "general"

InitProcessCommand ==
    /\ fs = None
    /\ \E input \in Inputs, enabled \in BOOLEAN, commands \in Commands :
          call = [args |-> [input |-> input],
                  config |-> [enable_direct_commands |-> enabled],
                  available_commands |-> commands,
                  pc |-> "called", log |-> <<>>, result |-> ""]
    /\ DiffIdle
    /\ FormatIdle
    /\ MainIdle

\* Ada::process_command, with try_direct_command
ProcessCommand ==
    /\ call.pc = "called"
    /\ LET input == call.args.input
           first_word == to_lowercase(split_whitespace(trim(input))[1])
       IN  IF input = "/help"
           THEN call' = [call EXCEPT !.pc = "returned", !.log = <<"show_help">>,
                                    !.result = "Ada - AI Assistant"]
           ELSE IF /\ call.config.enable_direct_commands
                   /\ IsDirectCommand(input, call.available_commands)
           THEN \E text \in {"Direct Command: " \o first_word \o "\n\noutput",
                              "Command failed: " \o OsError} :
                    call' = [call EXCEPT !.pc = "returned",
                                        !.log = <<"execute " \o trim(input)>>,
                                        !.result = text]
           ELSE \/ call' = [call EXCEPT !.pc = "returned", !.log = <<"classify">>,
                                        !.result = "Error classifying intent: "
                                                       \o OsError]
                \/ \E intent \in Intents, text \in {"response", "Error calling AI agent: " \o OsError} :
                       call' = [call EXCEPT
                                   !.pc = "returned",
                                   !.log = <<"classify", "agent " \o AgentOf(intent)>>,
                                   !.result = text]
    /\ UNCHANGED <<fs, diff_vars, format_vars, main_vars>>

NextProcessCommand == ProcessCommand

SpecProcessCommand == InitProcessCommand /\ [][NextProcessCommand]_vars

-----------------------------------------------------------------------------
(* Vocabulary of the properties.                                            *)

Max(x, y) == IF x > y THEN x ELSE y
Done == pc = "done"

\* s is a subsequence of t: its records map to strictly increasing
\* positions of t.
RECURSIVE IsSubsequence(_, _)
IsSubsequence(s, t) ==
    IF s = <<>> THEN TRUE
    ELSE IF t = <<>> THEN FALSE
    ELSE IF Head(s) = Head(t) THEN IsSubsequence(Tail(s), Tail(t))
    ELSE IsSubsequence(s, Tail(t))

Occurrences(rec, s) == Cardinality({q \in 1..Len(s) : s[q] = rec})
CountOf(type, s) == Cardinality({q \in 1..Len(s) : s[q].change_type = type})
Changed(ls, p) == At(ls, p).change_type # "Context"
NoChange(ls) == \A p \in 0..Len(ls) - 1 : ~Changed(ls, p)

\* The maximal change runs [p, q) of a script, 0-based and half-open.
ChangeRuns(ls) ==
    {r \in (0..Len(ls)) \X (0..Len(ls)) :
        /\ r[1] < r[2]
        /\ \A p \in r[1]..r[2] - 1 : Changed(ls, p)
        /\ r[1] = 0 \/ ~Changed(ls, r[1] - 1)
        /\ r[2] = Len(ls) \/ ~Changed(ls, r[2])}

\* The positions within c records of some change run.
WindowPositions(ls, c) ==
    UNION {Max(0, r[1] - c)..Min(Len(ls), r[2] + c) - 1 : r \in ChangeRuns(ls)}

\* The positions whose record occurs in out.
ShownPositions(ls, out) ==
    {p \in 0..Len(ls) - 1 : \E q \in 1..Len(out) : out[q] = At(ls, p)}

\* The contents of the records of ls whose type is in types, in order.
RECURSIVE ContentsOf(_, _)
ContentsOf(ls, types) ==
    IF ls = <<>> THEN <<>>
    ELSE (IF Head(ls).change_type \in types THEN <<Head(ls).content>> ELSE <<>>)
             \o ContentsOf(Tail(ls), types)

\* The lines of a text without their terminator.
LinesOf(text) == [n \in 1..Len(text) |-> SubSeq(text[n], 1, Len(text[n]) - 1)]

-----------------------------------------------------------------------------
\* C1: the windowed lines are a subsequence of the script: no record is
\* emitted twice or out of order.  The code emits records twice.
C1_WindowIsSubsequence == Done => IsSubsequence(diff.lines, lines)

\* C2: with context 2 and a script whose only changes are two single
\* records with exactly one Context record between them, each of the three
\* records from the first change to the second occurs exactly once in the
\* output.  The code emits them twice.
C2_MergedWindowOnce ==
    (Done /\ context_lines = 2) =>
        \A p \in 0..Len(lines) - 3 :
            (ChangeRuns(lines) = {<<p, p + 1>>, <<p + 2, p + 3>>}) =>
                \A q \in p..p + 2 : Occurrences(At(lines, q), diff.lines) = 1

\* C3: the positions whose record is shown are exactly those within
\* context_lines records of a change run.
C3_ShownIsWindowUnion ==
    Done => ShownPositions(lines, diff.lines) = WindowPositions(lines, context_lines)

C3_Witness ==
    /\ Done
    /\ context_lines >= 1
    /\ Cardinality(ChangeRuns(lines)) >= 2
    /\ ShownPositions(lines, diff.lines) # 0..Len(lines) - 1
    /\ \E p \in 0..Len(lines) - 1 :
          ~Changed(lines, p) /\ p \in ShownPositions(lines, diff.lines)

\* C4: a record's line number is 1 plus the number of records before it
\* that are not Removals, and the counter is 1 plus the number of records
\* pushed so far that are not Removals.
C4_LineNumberPolicy ==
    /\ \A p \in 1..Len(lines) :
          lines[p].line_number =
              1 + Cardinality({m \in 1..p - 1 : lines[m].change_type # "Removal"})
    /\ current_line =
          1 + Cardinality({m \in 1..Len(lines) : lines[m].change_type # "Removal"})

C4_Witness ==
    /\ Done
    /\ \E p \in 2..Len(lines) - 2 :
          /\ lines[p].change_type = "Removal"
          /\ lines[p + 1].change_type = "Addition"
          /\ lines[p + 2].change_type = "Context"
          /\ lines[p + 2].line_number = lines[p].line_number + 1

\* C5: the reported counts are the numbers of Addition and of Removal
\* records of the unwindowed script, whatever context_lines is.
C5_CountsOfUnwindowedScript ==
    Done => /\ diff.additions = CountOf("Addition", lines)
            /\ diff.removals = CountOf("Removal", lines)

C5_Witness ==
    /\ Done
    /\ diff.additions >= 1
    /\ diff.removals >= 1
    /\ Len(diff.lines) < Len(lines)

\* C6: the Context and Removal records are the lines of old in order, the
\* Context and Addition records the lines of new in order.
C6_ValidEditScript ==
    Done => /\ ContentsOf(lines, {"Context", "Removal"}) = LinesOf(old_content)
            /\ ContentsOf(lines, {"Context", "Addition"}) = LinesOf(new_content)
            /\ Len(lines) - CountOf("Removal", lines) = Len(new_content)

C6_Witness ==
    /\ Done
    /\ CountOf("Context", lines) >= 1
    /\ CountOf("Addition", lines) >= 1
    /\ CountOf("Removal", lines) >= 1
    /\ old_content # new_content

\* C7: a script with exactly one change run [p, q) is windowed to the
\* records at positions max(0, p - c) .. min(n, q + c) - 1, each once and in
\* order.
C7_SingleRunWindow ==
    Done =>
        \A r \in ChangeRuns(lines) :
            ChangeRuns(lines) = {r} =>
                LET c == context_lines
                    n == Len(lines)
                IN  /\ diff.lines = Slice(lines, Max(0, r[1] - c), Min(n, r[2] + c))
                    /\ Len(diff.lines) =
                          Min(c, r[1]) + (r[2] - r[1]) + Min(c, n - r[2])

C7_Witness ==
    /\ Done
    /\ context_lines = 1
    /\ \E p \in 2..Len(lines) - 3 : ChangeRuns(lines) = {<<p, p + 1>>}
    /\ Len(diff.lines) = 3
    /\ Len(lines) >= 5

\* C8: a Removal carries the line number of the record after it; Removals
\* at the very end of the script carry the number of lines of new plus 1.
C8_RemovalSharesNextNumber ==
    (pc # "start" /\ k = Len(changes)) =>
        \A p \in 1..Len(lines) :
            lines[p].change_type = "Removal" =>
                IF p < Len(lines)
                THEN lines[p].line_number = lines[p + 1].line_number
                ELSE lines[p].line_number = Len(new_content) + 1

C8_Witness ==
    /\ Done
    /\ Len(lines) >= 3
    /\ Last(lines).change_type = "Removal"
    /\ \E p \in 1..Len(lines) - 1 :
          /\ lines[p].change_type = "Removal"
          /\ lines[p + 1].change_type # "Removal"

\* C9: line numbers start at 1 and each is the previous one or one more.
C9_LineNumbersMonotone ==
    /\ lines # <<>> => lines[1].line_number = 1
    /\ \A p \in 1..Len(lines) - 1 :
          lines[p + 1].line_number \in
              {lines[p].line_number, lines[p].line_number + 1}

C9_Witness ==
    /\ Done
    /\ \E p \in 1..Len(lines) - 1 : lines[p + 1].line_number = lines[p].line_number
    /\ \E p \in 1..Len(lines) - 1 : lines[p + 1].line_number = lines[p].line_number + 1

\* C10: a script without Addition or Removal records, the empty script
\* included, is windowed to the empty sequence and counted as 0 and 0.
C10_NoChangeNoOutput ==
    (Done /\ NoChange(lines)) =>
        /\ diff.lines = <<>>
        /\ diff.additions = 0
        /\ diff.removals = 0

C10_Witness ==
    /\ Done
    /\ NoChange(lines)
    /\ Len(lines) >= 2
    /\ context_lines >= 1

\* C11: a text diffed against itself gives one Context record per line,
\* numbered 1..n, and counts 0 and 0.
C11_SelfDiffAllContext ==
    (Done /\ old_content = new_content) =>
        /\ Len(lines) = Len(old_content)
        /\ \A p \in 1..Len(lines) :
              /\ lines[p].change_type = "Context"
              /\ lines[p].line_number = p
        /\ diff.additions = 0
        /\ diff.removals = 0

C11_Witness ==
    /\ Done
    /\ old_content = new_content
    /\ Len(old_content) >= 3
    /\ \E p \in 1..Len(lines) : lines[p].content # lines[1].content

\* new is old with the line at position p replaced by another line.
ReplacedAt(old, new, p) ==
    /\ Len(old) = Len(new)
    /\ p \in 1..Len(old)
    /\ old[p] # new[p]
    /\ \A q \in 1..Len(old) : q # p => old[q] = new[q]

\* C12: when one line, at position p, is replaced, the script has the
\* Removal of the old line right before the Addition of the new line, both
\* numbered p, the counts are 1 and 1, and when every Context record is
\* within context_lines records of the two the windowed lines are the script.
C12_SingleReplacement ==
    Done =>
        \A p \in 1..Len(old_content) :
            ReplacedAt(old_content, new_content, p) =>
                /\ Len(lines) = Len(old_content) + 1
                /\ lines[p] = DiffLine(p, "Removal", LinesOf(old_content)[p])
                /\ lines[p + 1] = DiffLine(p, "Addition", LinesOf(new_content)[p])
                /\ diff.additions = 1
                /\ diff.removals = 1
                /\ (p - 1 <= context_lines /\ Len(old_content) - p <= context_lines)
                       => diff.lines = lines

C12_Witness ==
    /\ Done
    /\ ReplacedAt(old_content, new_content, 2)
    /\ Len(old_content) = 3
    /\ context_lines = 2
    /\ Len(diff.lines) = 4

EndsWith(str, c) ==
    Len(str) >= Len(c) /\ SubSeq(str, Len(str) - Len(c) + 1, Len(str)) = c

\* C16: the windowing never fails: no panic, the scan index stays within
\* the script, and end + context does not overflow.  With a context near
\* usize::MAX the sum overflows.
C16_WindowingNeverFails ==
    /\ pc # "panicked"
    /\ pc = "scan" => i <= Len(lines)
    /\ (pc = "scan" /\ i < Len(lines) /\ IsChange(At(lines, i)))
           => RunEnd(lines, i + 1) + context_lines <= UsizeMax

\* C17: no stored content ends with a line feed or a carriage return (the
\* line bodies hold neither, so either would be left of the terminator).
\* A CRLF line keeps its carriage return.
C17_TerminatorStripped ==
    \A p \in 1..Len(lines) :
        /\ ~EndsWith(lines[p].content, "\n")
        /\ ~EndsWith(lines[p].content, "\r")

StartsWith(str, c) == Len(str) >= Len(c) /\ SubSeq(str, 1, Len(c)) = c
Contains(str, c) ==
    \E p \in 1..Len(str) - Len(c) + 1 : SubSeq(str, p, p + Len(c) - 1) = c
Newlines(str) == Cardinality({p \in 1..Len(str) : SubSeq(str, p, p) = "\n"})
Formatted == output # None

\* C13: the output starts with the header line; then come, if a diff is
\* present, the summary line and one line per record and nothing of the
\* details; else, if details are present, the one details line; else nothing.
C13_HeaderThenOneBody ==
    Formatted =>
        LET t == tool_output
            header == "⏺ " \o t.tool_name \o "(" \o t.summary \o ")\n"
            body == SubSeq(output, Len(header) + 1, Len(output))
        IN  /\ StartsWith(output, header)
            /\ IF t.diff # NoDiff
               THEN /\ StartsWith(body, "  ⎿  Updated ")
                    /\ Newlines(body) = 1 + Len(t.diff[1].lines)
                    /\ t.details # None => ~Contains(output, t.details)
               ELSE IF t.details # None
                    THEN body = "  ⎿  " \o t.details \o "\n"
                    ELSE body = ""

C13_Witness ==
    /\ Formatted
    /\ tool_output.diff # NoDiff
    /\ tool_output.details # None
    /\ Len(tool_output.diff[1].lines) = 2

\* C14: in the summary line "addition" has the suffix "s" iff the count is
\* not 1, and so has "removal", each by its own count; 1 and 2 at x.txt
\* render "Updated x.txt with 1 addition and 2 removals".
C14_PluralSuffixes ==
    (Formatted /\ tool_output.diff # NoDiff) =>
        LET d == tool_output.diff[1]
        IN  /\ Contains(output,
                   "Updated " \o d.file_path \o " with " \o Decimal(d.additions)
                       \o (IF d.additions # 1 THEN " additions" ELSE " addition")
                       \o " and " \o Decimal(d.removals)
                       \o (IF d.removals # 1 THEN " removals\n" ELSE " removal\n"))
            /\ (d.file_path = "x.txt" /\ d.additions = 1 /\ d.removals = 2)
                   => Contains(output, "Updated x.txt with 1 addition and 2 removals\n")
            /\ (d.additions = 0 /\ d.removals = 1)
                   => Contains(output, " with 0 additions and 1 removal\n")

C14_Witness ==
    /\ Formatted
    /\ tool_output.diff # NoDiff
    /\ tool_output.diff[1].additions = 1
    /\ tool_output.diff[1].removals = 2

\* The line format of C15, written out for the records of DiffLines.
RECURSIVE C15_Expected(_)
C15_Expected(ls) ==
    IF ls = <<>> THEN ""
    ELSE LET l == Head(ls)
         IN  "    "
                 \o (CASE l.line_number = 7 -> "   7"
                       [] l.line_number = 42 -> "  42"
                       [] l.line_number = 12345 -> "12345")
                 \o (CASE l.change_type = "Context" -> "     "
                       [] l.change_type = "Addition" -> "    +"
                       [] l.change_type = "Removal" -> "    -")
                 \o " " \o l.content \o "\n"
                 \o C15_Expected(Tail(ls))

\* C15: after the header and the summary line the output is one line per
\* record of diff.lines, in order: four spaces, the number right-aligned to
\* width 4 and never cut, the tag column, a space, the content, a newline.
C15_OneLinePerRecord ==
    (Formatted /\ tool_output.diff # NoDiff) =>
        /\ EndsWith(output, C15_Expected(tool_output.diff[1].lines))
        /\ Newlines(output) = 2 + Len(tool_output.diff[1].lines)

C15_Witness ==
    /\ Formatted
    /\ tool_output.diff # NoDiff
    /\ Len(tool_output.diff[1].lines) = 2
    /\ tool_output.diff[1].lines[1].line_number = 12345
    /\ tool_output.diff[1].lines[2].line_number = 7
    /\ tool_output.diff[1].lines[1].change_type # tool_output.diff[1].lines[2].change_type

Returned == call.pc = "returned"

\* C18: a delete or a move that succeeded reports the header line and the one
\* details line, "Deleted <file|directory> <source>" by what the source was,
\* or "Moved <source> to <destination>", and create_diff was never entered.
C18_DeleteMoveDetailsOnly ==
    (Returned /\ call.result.ok /\ call.args.operation \in {"delete", "move"}) =>
        LET source == call.args.source
            destination == call.args.destination
            was == call.before[source].kind
        IN  /\ pc = "idle"
            /\ Newlines(call.result.text) = 2
            /\ call.args.operation = "delete" =>
                   call.result.text =
                       "⏺ Delete(" \o source \o ")\n  ⎿  Deleted "
                           \o (IF was = "directory" THEN "directory" ELSE "file")
                           \o " " \o source \o "\n"
            /\ call.args.operation = "move" =>
                   call.result.text =
                       "⏺ Move(" \o source \o ")\n  ⎿  Moved " \o source
                           \o " to " \o destination \o "\n"

C18_Witness ==
    /\ Returned
    /\ call.result.ok
    /\ call.args.operation = "delete"
    /\ call.before[call.args.source].kind = "directory"
    /\ fs[call.args.source].kind = "absent"

\* Esc was pressed while the request in flight showed the working indicator.
EscWhileWorking ==
    /\ ui.pc = "processing"
    /\ app.is_processing
    /\ \E e \in 1..Len(ui.events) :
          ui.events[e].code = "Esc" /\ ui.events[e].working

\* The request in flight runs to its end and its response is appended.
Completes ==
    /\ ui.pc = "processing"
    /\ ui'.pc = "poll"
    /\ \E response \in Responses :
          app'.messages = Append(app.messages, Message("Assistant", response))

\* C19: once Esc is pressed while a request is processed under the working
\* indicator, the request is interrupted: it does not run to its end.
C19_EscInterrupts == [][EscWhileWorking => ~Completes]_vars

\* The numbers of Context records between one change run and a later one.
Gaps(ls) ==
    {rr[2][1] - rr[1][2] :
        rr \in {x \in ChangeRuns(ls) \X ChangeRuns(ls) : x[2][1] > x[1][2]}}

\* Every two change runs are at least 2 * c - 1 Context records apart.
WellSeparated(ls, c) == \A g \in Gaps(ls) : g >= 2 * c - 1

\* Some record occurs more often in out than in ls.
Repeats(ls, out) ==
    \E q \in 1..Len(out) : Occurrences(out[q], out) > Occurrences(out[q], ls)

C22_NotFoundLeavesFile ==
    LET path == call.args.file_path
        text == TextOf(call.before[path].content)
        read == call.did # <<>> /\ call.did[1] = "read_to_string"
    IN  /\ (Returned /\ read /\ ~Contains(text, call.args.old_string)) =>
               /\ ~call.result.ok
               /\ call.result.text =
                      "String not found in file: '" \o call.args.old_string \o "'"
               /\ call.did = <<"read_to_string">>
               /\ fs = call.before
        /\ call.result.ok =>
               /\ Returned
               /\ call.did = <<"read_to_string", "write">>
               /\ call.before[path].kind = "file"
               /\ Contains(text, call.args.old_string)
               /\ fs[path].kind = "file"
               /\ TextOf(fs[path].content) # text
                      => Contains(TextOf(fs[path].content), call.args.new_string)

C22_Witness ==
    /\ Returned
    /\ call.did = <<"read_to_string">>
    /\ call.before["a.txt"].kind = "file"
    /\ call.before["a.txt"].content # <<>>
    /\ call.args.file_path = "a.txt"
    /\ call.args.old_string = "c"
    /\ ~call.result.ok

\* C23: a copy that succeeded reports a diff exactly if the destination was
\* a text file with content before the copy; the diff is then the one of
\* create_diff(destination, that content, the source's content, 2); else the
\* report is the header and the line "Copied <source> to <destination>".
C23_CopyDiffIffOldText ==
    (Returned /\ call.result.ok /\ call.args.operation = "copy") =>
        LET source == call.args.source
            destination == call.args.destination
            was == call.before[destination]
            header == "⏺ Copy(" \o destination \o ")\n"
        IN  IF was.kind = "file" /\ was.content # <<>>
            THEN /\ Done
                 /\ file_path = destination
                 /\ old_content = was.content
                 /\ new_content = call.before[source].content
                 /\ context_lines = 2
                 /\ ContentsOf(lines, {"Context", "Removal"}) = LinesOf(old_content)
                 /\ ContentsOf(lines, {"Context", "Addition"}) = LinesOf(new_content)
                 /\ StartsWith(call.result.text,
                        header \o "  ⎿  Updated " \o destination \o " with "
                            \o Decimal(CountOf("Addition", lines)) \o " addition")
                 /\ Newlines(call.result.text) = 2 + Len(diff.lines)
            ELSE /\ pc = "idle"
                 /\ call.result.text =
                        header \o "  ⎿  Copied " \o source \o " to "
                            \o destination \o "\n"

C23_Witness ==
    /\ Returned
    /\ call.result.ok
    /\ call.args.operation = "copy"
    /\ call.before[call.args.destination].kind = "file"
    /\ Done
    /\ diff.additions > 0
    /\ diff.removals > 0

\* C30: an operation other than delete, move and copy, a move or a copy
\* without destination, and a copy of a directory return an error and leave
\* the file system as it was; the missing destination is reported before
\* any file-system call can fail.
C30_RejectedCallsChangeNothing ==
    LET operation == call.args.operation
        no_destination == call.args.destination = None
        known == operation \in {"delete", "move", "copy"}
        from_directory ==
            operation = "copy" /\ call.before[call.args.source].kind = "directory"
    IN  (Returned /\ (~known \/ from_directory
                         \/ (operation \in {"move", "copy"} /\ no_destination))) =>
            /\ ~call.result.ok
            /\ fs = call.before
            /\ pc = "idle"
            /\ ~known =>
                   call.result.text = "Unknown operation: " \o operation
                       \o ". Use 'delete', 'move', or 'copy'"
            /\ (known /\ no_destination) =>
                   call.result.text =
                       "Destination required for " \o operation \o " operation"
            /\ (from_directory /\ ~no_destination) =>
                   call.result.text \in
                       {"Copying directories not yet supported",
                        "Failed to access source: " \o OsError}

C30_Witness ==
    /\ Returned
    /\ call.args.operation = "copy"
    /\ call.args.destination # None
    /\ call.before[call.args.source].kind = "directory"
    /\ call.result.text = "Copying directories not yet supported"

\* The entry at which a failed write_files call stopped.
FailedAt == Len(call.did) + 1

\* The last entry before the n-th that names path p, 0 if there is none.
LastBefore(files, p, n) ==
    LET at == {j \in 1..n - 1 : files[j].path = p}
    IN  IF at = {} THEN 0 ELSE CHOOSE j \in at : \A j2 \in at : j2 <= j

WriteFailed == Returned /\ ~call.result.ok

C25_OldSideIsPreWriteContent ==
    call.pc = "create_diff" =>
        LET files == call.args.files
            file == files[call.index]
            was == call.prior[file.path]
        IN  /\ file_path = file.path
            /\ old_content = (IF was.kind = "file" THEN was.content ELSE <<>>)
            /\ TextOf(new_content) = file.content
            /\ fs[file.path] = TextFile(new_content)
            /\ (call.index > 1 /\ files[call.index - 1].path = file.path) =>
                   TextOf(old_content) = files[call.index - 1].content
            /\ Done =>
                   /\ ContentsOf(lines, {"Context", "Removal"}) = LinesOf(old_content)
                   /\ ContentsOf(lines, {"Context", "Addition"}) = LinesOf(new_content)

C25_Witness ==
    /\ call.pc = "create_diff"
    /\ Done
    /\ call.index = 2
    /\ call.args.files[1] = FileToWrite("a.txt", "a\n")
    /\ call.args.files[2] = FileToWrite("a.txt", "b\na\nb\n")
    /\ call.before["a.txt"] = Absent
    /\ diff.additions = 2
    /\ diff.removals = 0

\* C26: when the path write_files writes held no text before (it was
\* missing, or not readable as text), the diff of the n lines written is n
\* Addition records numbered 1..n with the lines as content, all of them
\* shown, additions = n and removals = 0.
C26_NewFileAllAdditions ==
    (call.pc = "create_diff" /\ Done) =>
        LET file == call.args.files[call.index]
            written == LinesOf(Tokenize(file.content))
        IN  call.prior[file.path].kind # "file" =>
                /\ diff.lines = [n \in 1..Len(written) |->
                                    DiffLine(n, "Addition", written[n])]
                /\ diff.additions = Len(written)
                /\ diff.removals = 0

C26_Witness ==
    /\ call.pc = "create_diff"
    /\ Done
    /\ call.prior[file_path].kind = "absent"
    /\ Len(diff.lines) = 3
    /\ context_lines = 2

\* The System welcome followed by (User, Assistant) pairs.
Answered(messages) ==
    /\ Len(messages) % 2 = 1
    /\ messages[1].role = "System"
    /\ \A n \in 2..Len(messages) :
           messages[n].role = (IF n % 2 = 0 THEN "User" ELSE "Assistant")

\* handle_events takes a key event from the queue in this step.
HandlesKey == Len(ui'.events) < Len(ui.events)

\* C27: whenever the loop is at its poll, is_processing is false and the
\* messages are the System welcome followed by (User, Assistant) pairs;
\* messages are only ever appended; a key event is handled only at the
\* poll, so with every User message answered; and Enter on an empty input
\* adds no message.
C27_PollSeesAnsweredMessages ==
    /\ [](ui.pc = "poll" => (~app.is_processing /\ Answered(app.messages)))
    /\ [][/\ Len(app'.messages) >= Len(app.messages)
          /\ SubSeq(app'.messages, 1, Len(app.messages)) = app.messages
          /\ HandlesKey => (ui.pc = "poll" /\ Answered(app.messages))
          /\ (HandlesKey /\ Head(ui.events).code = "Enter" /\ app.input = "")
                 => app'.messages = app.messages]_vars

C27_Witness ==
    /\ ui.pc = "poll"
    /\ ui.events = <<>>
    /\ ui.pressed = 5
    /\ Len(app.messages) = 5
    /\ app.input = ""

\* C28: for every successful response the call returns Ok: the body itself
\* if it has at most 100000 bytes, else its first 100000 bytes followed by
\* "... (truncated, total size: <N> bytes)"; it never panics.  The cut
\* panics inside a character.
C28_EveryBodyIsReturned ==
    (call.pc # "called" /\ call.response.outcome = "success") =>
        LET body == call.response.body
        IN  /\ call.pc = "returned"
            /\ call.result.ok
            /\ ByteLen(body) <= 100000 =>
                   (call.result.body = body /\ call.result.text = "")
            /\ ByteLen(body) > 100000 =>
                   /\ ByteLen(call.result.body) = 100000
                   /\ call.result.text =
                          "... (truncated, total size: " \o Decimal(ByteLen(body))
                              \o " bytes)"

\* The call ran a shell command directly / before anything else.
Executes(log) == \E e \in 1..Len(log) : StartsWith(log[e], "execute ")

\* C29: the input is run as a shell command exactly if direct commands are
\* enabled, the input is not "/help", its first token in lower case is no
\* question word and a loaded command name, and its second token, if any, in
\* lower case is no natural-language word; otherwise, but for "/help", the
\* classifier is the first thing invoked; "/help" invokes show_help alone.
C29_DirectCommandOnlyWhenRecognised ==
    Returned =>
        LET input == call.args.input
            tokens == split_whitespace(input)
            recognised ==
                /\ call.config.enable_direct_commands
                /\ input # "/help"
                /\ tokens # <<>>
                /\ to_lowercase(tokens[1]) \notin question_words
                /\ to_lowercase(tokens[1]) \in call.available_commands
                /\ Len(tokens) >= 2 =>
                       to_lowercase(tokens[2]) \notin natural_language_words
        IN  /\ Executes(call.log) <=> recognised
            /\ recognised => call.log = <<"execute " \o trim(input)>>
            /\ (~recognised /\ input # "/help") => call.log[1] = "classify"
            /\ input = "/help" => call.log = <<"show_help">>

C29_Witness ==
    /\ Returned
    /\ call.args.input = "LS -la"
    /\ call.log = <<"execute LS -la">>

=============================================================================
